---- MODULE Spec2Model ----
(***************************************************************************)
(* BinaryInfo (lambda_functions/analyzer/binary_info.py): the analysis of  *)
(* one binary stored in S3.  A BinaryInfo is a context manager: __enter__  *)
(* downloads the object, hashes it and runs YARA; the body of the scope    *)
(* reads summary() and calls save_matches_and_alert(); __exit__ truncates  *)
(* and removes the downloaded file.                                        *)
(*                                                                         *)
(* Strings that the code builds with str.format are sequences of           *)
(* characters, so that two different inputs can format to the same string. *)
(***************************************************************************)
EXTENDS Integers, Sequences, FiniteSets, TLC

\* ------------------------------------------------------------------ bounds
NumUnits == 2
MaxLen == 1
MaxMatches == 2
MaxExitCalls == 2
MaxElapsedMs == 1
MaxReads == 1

Units == 1..NumUnits
Bytes == {0, 1}

SeqsUpTo(S, n) == UNION {[1..k -> S] : k \in 0..n}

\* --------------------------------------------------------- external values
EmptyDict == [k \in {} |-> ""]
Metadatas == {EmptyDict, [k \in {"filepath"} |-> "/usr/bin/x"]}
LastModifieds == {"t1"}
Buckets == {<<"b">>}
Keys == {<<"k">>, <<"j">>}

\* What analyzer_aws_lib.download_from_s3 can find in the bucket.
S3Objects == [data : SeqsUpTo(Bytes, MaxLen), last_modified : LastModifieds, metadata : Metadatas]

\* YARA string identifiers, as the code points of their characters (Python orders
\* str values by code point): "$s1", "$s10", "$s2".
S1 == <<36, 115, 49>>
S10 == <<36, 115, 49, 48>>
S2 == <<36, 115, 50>>

\* yara.Match objects the analyzer can return (strings are (offset, id, data) triples).
M1 == [namespace |-> <<"f">>, rule |-> <<"r">>, strings |-> << <<0, S1, "x">> >>,
       meta |-> EmptyDict, tags |-> <<>>]
M2 == [namespace |-> <<"g">>, rule |-> <<"r">>, strings |-> << <<0, S2, "y">>, <<1, S1, "x">> >>,
       meta |-> EmptyDict, tags |-> <<"t">>]
EngineMatches == {M1, M2}
EngineResults == SeqsUpTo(EngineMatches, MaxMatches)

FetchErrors == {"notfound", "permission", "transport"}
None == <<"None">>

\* file_hash.compute_hashes: both digests are functions of the file's bytes.
Sha256(data) == <<"sha256", data>>
Md5(data) == <<"md5", data>>

\* -------------------------------------------------------------- local disk
NoFile == [exists |-> FALSE, data |-> <<>>]
FileOf(data) == [exists |-> TRUE, data |-> data]
\* What a failed download can leave at download_path: nothing, or a partly written file.
PartialFiles == {NoFile} \cup {FileOf(d) : d \in SeqsUpTo(Bytes, MaxLen)}

\* ------------------------------------------------------------- BinaryInfo
S3Identifier(bucket_name, object_key) == <<"S", "3", ":">> \o bucket_name \o <<":">> \o object_key

NewBinaryInfo(u, bucket_name, object_key) ==
    [bucket_name |-> bucket_name,
     object_key |-> object_key,
     s3_identifier |-> S3Identifier(bucket_name, object_key),
     download_path |-> <<"binaryalert_", u>>,
     download_time_ms |-> 0,
     s3_last_modified |-> "",
     s3_metadata |-> EmptyDict,
     computed_md5 |-> None,
     computed_sha |-> None,
     yara_matches |-> <<>>]

RuleId(namespace, rule) == namespace \o <<":">> \o rule

matched_rule_ids_by_rule_name(self) ==
    {self.yara_matches[i].rule : i \in DOMAIN self.yara_matches}
matched_rule_ids(self) ==
    {RuleId(self.yara_matches[i].namespace, self.yara_matches[i].rule) : i \in DOMAIN self.yara_matches}

filepath_before_download(self) == ""
filepath(self) ==
    IF "filepath" \in DOMAIN self.s3_metadata THEN self.s3_metadata["filepath"] ELSE ""

\* ---------------------------------------------------------------- summary
\* Python's order on str: by code point, a proper prefix first.
RECURSIVE LexLess(_, _)
LexLess(a, b) ==
    IF a = <<>> THEN b # <<>>
    ELSE IF b = <<>> THEN FALSE
    ELSE IF Head(a) # Head(b) THEN Head(a) < Head(b)
    ELSE LexLess(Tail(a), Tail(b))

\* sorted(S) of a set of str: its elements, ascending.
RECURSIVE Sorted(_)
Sorted(S) ==
    IF S = {} THEN <<>>
    ELSE LET least == CHOOSE x \in S : \A y \in S \ {x} : LexLess(x, y)
         IN <<least>> \o Sorted(S \ {least})

\* list(sorted(set(t[1] for t in match.strings)))
MatchedStringsAsReported(strings) == [i \in DOMAIN strings |-> strings[i][2]]
MatchedStrings(strings) == Sorted({strings[i][2] : i \in DOMAIN strings})

\* str(index) in 'Rule{}'.format(index): the decimal digits of a positive integer.
Digit(d) == <<"0", "1", "2", "3", "4", "5", "6", "7", "8", "9">>[d + 1]
RECURSIVE Decimal(_)
Decimal(n) == IF n < 10 THEN <<Digit(n)>> ELSE Decimal(n \div 10) \o <<Digit(n % 10)>>

\* enumerate(self.yara_matches, start=1)
FirstIndexZero == 1 - 1
FirstIndex == 1
RuleKey(index) == <<"R", "u", "l", "e">> \o Decimal(index)

RuleBlock(match) ==
    [MatchedStrings |-> MatchedStrings(match.strings),
     Meta |-> match.meta,
     RuleFile |-> match.namespace,
     RuleName |-> match.rule,
     RuleTags |-> match.tags]

\* result['MatchedRules']: each key holds the block of the last match assigned to it.
MatchedRules(matches) ==
    LET IndexOf(i) == i - 1 + FirstIndex
        keys == {RuleKey(IndexOf(i)) : i \in DOMAIN matches}
        last(k) == CHOOSE i \in DOMAIN matches :
                      /\ RuleKey(IndexOf(i)) = k
                      /\ \A j \in DOMAIN matches : RuleKey(IndexOf(j)) = k => j <= i
    IN [k \in keys |-> RuleBlock(matches[last(k)])]

NumMatchedRulesDistinct(self) == Cardinality(matched_rule_ids(self))
NumMatchedRules(self) == Len(self.yara_matches)

summary(self) ==
    [FileInfo |-> [MD5 |-> self.computed_md5,
                   S3LastModified |-> self.s3_last_modified,
                   S3Location |-> self.s3_identifier,
                   S3Metadata |-> self.s3_metadata,
                   SHA256 |-> self.computed_sha],
     MatchedRules |-> MatchedRules(self.yara_matches),
     NumMatchedRules |-> NumMatchedRules(self)]

\* ------------------------------------------------ durable store, notifier
Identities == {S3Identifier(b, k) : b \in Buckets, k \in Keys}
NoRecord == [recorded |-> FALSE, rules |-> {}, version |-> 0, writer |-> 0]
AnalyzerVersion == 1

\* DynamoMatchTable.save_matches: an atomic conditional write per identity.
NeedsAlert(tbl, identity, rules) == ~tbl[identity].recorded \/ tbl[identity].rules # rules
\* (writer names the invocation whose write the record is.)
StoreSave(tbl, identity, rules, version, u) ==
    [tbl EXCEPT ![identity] = [recorded |-> TRUE, rules |-> rules, version |-> version, writer |-> u]]

VARIABLES
    mode,        \* how the caller drives the record: "with" (a with block) or "direct" calls
    binary,      \* binary[u]: the fields of unit u's BinaryInfo
    disk,        \* disk[u]: the file at binary[u].download_path
    pc,          \* pc[u]: where unit u's control is
    calls,       \* calls[u]: how often each method and external call was invoked
    fetched,     \* fetched[u]: how the download ended: "none" (not run), "ok" or the error
    hint,        \* hint[u]: original_target_path handed to the analyzer (None before)
    inflight,    \* inflight[u]: the exception of the scope body that __exit__ is called with
    raised,      \* raised[u]: the exception the caller got from the last call or scope
    exitStatus,  \* exitStatus[u]: "none", "running", "returned" or "raised" (last __exit__)
    needs_alert, \* needs_alert[u]: the local variable of save_matches_and_alert
    saveResult,  \* saveResult[u]: "none", "saved" or "error"
    prior,       \* prior[u]: the store's record for the identity that u's save replaced
    pubResult,   \* pubResult[u]: "none", "ok" or "error"
    table,       \* the Dynamo match table: identity -> record
    alerts,      \* delivered SNS alerts: identity -> count
    summaryOut,  \* summaryOut[u]: what the last summary() returned to the caller
    ruleIdsOut   \* ruleIdsOut[u]: what the last read of matched_rule_ids returned

vars == <<mode, binary, disk, pc, calls, fetched, hint, inflight, raised, exitStatus,
          needs_alert, saveResult, prior, pubResult, table, alerts, summaryOut, ruleIdsOut>>

readVars == <<summaryOut, ruleIdsOut>>
scopeVars == <<mode, binary, disk, fetched, hint, exitStatus, readVars>>
alertVars == <<needs_alert, saveResult, prior, pubResult, table, alerts, readVars>>

NoCalls == [enter |-> 0, fetch |-> 0, hash |-> 0, scan |-> 0, save |-> 0, publish |-> 0,
            exit |-> 0, truncate |-> 0, remove |-> 0, summary |-> 0, rule_ids |-> 0]

\* The state after BinaryInfo.__init__, for every unit.
InitCommon ==
    /\ disk = [u \in Units |-> NoFile]
    /\ fetched = [u \in Units |-> "none"]
    /\ hint = [u \in Units |-> None]
    /\ inflight = [u \in Units |-> "none"]
    /\ raised = [u \in Units |-> "none"]
    /\ exitStatus = [u \in Units |-> "none"]
    /\ needs_alert = [u \in Units |-> FALSE]
    /\ saveResult = [u \in Units |-> "none"]
    /\ prior = [u \in Units |-> NoRecord]
    /\ pubResult = [u \in Units |-> "none"]
    /\ table = [i \in Identities |-> NoRecord]
    /\ alerts = [i \in Identities |-> 0]
    /\ summaryOut = [u \in Units |-> summary(NewBinaryInfo(u, <<>>, <<>>))]
    /\ ruleIdsOut = [u \in Units |-> {}]

Init ==
    /\ mode \in {"with", "direct"}
    /\ \E b \in Buckets, k \in Keys : binary = [u \in Units |-> NewBinaryInfo(u, b, k)]
    /\ pc = [u \in Units |-> "new"]
    /\ calls = [u \in Units |-> NoCalls]
    /\ InitCommon

\* ---------------------------------------------------------------- caller
\* A with statement ends, without calling __exit__, when __enter__ raises;
\* a caller that invokes the methods itself gets control back.
ScopeEnd == IF mode = "with" THEN "done" ELSE "rest"

\* __enter__ is invoked: by the with statement, or by a direct call (once per record).
Enter(u) ==
    /\ \/ mode = "with" /\ pc[u] = "new"
       \/ mode = "direct" /\ pc[u] \in {"new", "rest"} /\ calls[u].enter = 0
    /\ pc' = [pc EXCEPT ![u] = "download"]
    /\ calls' = [calls EXCEPT ![u].enter = @ + 1]
    /\ exitStatus' = [exitStatus EXCEPT ![u] = "none"]
    /\ raised' = [raised EXCEPT ![u] = "none"]
    /\ UNCHANGED <<mode, binary, disk, fetched, hint, inflight>>
    /\ UNCHANGED alertVars

\* An exception leaves __enter__: nothing in __enter__ catches it.
EnterSwallows(u, kind) ==
    /\ pc' = [pc EXCEPT ![u] = IF pc[u] = "download" THEN "hash"
                                ELSE IF pc[u] = "hash" THEN "scan" ELSE ScopeEnd]
    /\ UNCHANGED raised
EnterRaises(u, kind) ==
    /\ pc' = [pc EXCEPT ![u] = ScopeEnd]
    /\ raised' = [raised EXCEPT ![u] = kind]

\* -------------------------------------------------------------- __enter__
\* self._download_from_s3()
Download(u) ==
    /\ pc[u] = "download"
    /\ calls' = [calls EXCEPT ![u].fetch = @ + 1]
    /\ \/ \E obj \in S3Objects, t \in 0..MaxElapsedMs :
            /\ disk' = [disk EXCEPT ![u] = FileOf(obj.data)]
            /\ binary' = [binary EXCEPT ![u].s3_last_modified = obj.last_modified,
                                        ![u].s3_metadata = obj.metadata,
                                        ![u].download_time_ms = t]
            /\ pc' = [pc EXCEPT ![u] = "hash"]
            /\ fetched' = [fetched EXCEPT ![u] = "ok"]
            /\ UNCHANGED raised
       \/ \E kind \in FetchErrors, f \in PartialFiles :
            /\ disk' = [disk EXCEPT ![u] = f]
            /\ fetched' = [fetched EXCEPT ![u] = kind]
            /\ EnterRaises(u, kind)
            /\ UNCHANGED binary
    /\ UNCHANGED <<mode, hint, inflight, exitStatus>>
    /\ UNCHANGED alertVars

\* self.computed_sha, self.computed_md5 = file_hash.compute_hashes(self.download_path)
HashOneByOne(u) ==
    /\ pc[u] = "hash"
    /\ calls' = [calls EXCEPT ![u].hash = @ + 1]
    /\ \/ /\ binary' = [binary EXCEPT ![u].computed_sha = Sha256(disk[u].data),
                                      ![u].computed_md5 = Md5(disk[u].data)]
          /\ pc' = [pc EXCEPT ![u] = "scan"]
          /\ UNCHANGED raised
       \/ /\ EnterRaises(u, "hash_io")
          /\ binary' = [binary EXCEPT ![u].computed_sha = Sha256(disk[u].data)]
    /\ UNCHANGED <<mode, disk, fetched, hint, inflight, exitStatus>>
    /\ UNCHANGED alertVars

Hash(u) ==
    /\ pc[u] = "hash"
    /\ calls' = [calls EXCEPT ![u].hash = @ + 1]
    /\ \/ /\ binary' = [binary EXCEPT ![u].computed_sha = Sha256(disk[u].data),
                                      ![u].computed_md5 = Md5(disk[u].data)]
          /\ pc' = [pc EXCEPT ![u] = "scan"]
          /\ UNCHANGED raised
       \/ /\ EnterRaises(u, "hash_io")
          /\ UNCHANGED binary
    /\ UNCHANGED <<mode, disk, fetched, hint, inflight, exitStatus>>
    /\ UNCHANGED alertVars

\* self.yara_matches = self.yara_analyzer.analyze(download_path, original_target_path=self.filepath)
Scan(u) ==
    /\ pc[u] = "scan"
    /\ calls' = [calls EXCEPT ![u].scan = @ + 1]
    /\ hint' = [hint EXCEPT ![u] = <<filepath(binary[u])>>]
    /\ \/ \E matches \in EngineResults :
            /\ binary' = [binary EXCEPT ![u].yara_matches = matches]
            /\ pc' = [pc EXCEPT ![u] = IF mode = "with" THEN "body" ELSE "rest"]
            /\ UNCHANGED raised
       \/ /\ EnterRaises(u, "scan")
          /\ UNCHANGED binary
    /\ UNCHANGED <<mode, disk, fetched, inflight, exitStatus>>
    /\ UNCHANGED alertVars

\* ------------------------------------------------- save_matches_and_alert
\* if needs_alert: publish_alert_to_sns(...)
AfterSaveAlways(needs) == "publish"
AfterSaveNever(needs) == "exit"
AfterSave(needs) == IF needs THEN "publish" ELSE "exit"

\* save_matches raises: the exception leaves save_matches_and_alert at once.
AfterSaveErrorSwallowed == "publish"
AfterSaveError == "exit"

\* table.save_matches(self, analyzer_version)
SaveMatches(u) ==
    /\ pc[u] = "body"
    /\ calls' = [calls EXCEPT ![u].save = @ + 1]
    /\ LET id == binary[u].s3_identifier
           rules == matched_rule_ids(binary[u])
       IN \/ /\ needs_alert' = [needs_alert EXCEPT ![u] = NeedsAlert(table, id, rules)]
             /\ table' = StoreSave(table, id, rules, AnalyzerVersion, u)
             /\ prior' = [prior EXCEPT ![u] = table[id]]
             /\ saveResult' = [saveResult EXCEPT ![u] = "saved"]
             /\ pc' = [pc EXCEPT ![u] = AfterSave(NeedsAlert(table, id, rules))]
             /\ UNCHANGED inflight
          \/ /\ saveResult' = [saveResult EXCEPT ![u] = "error"]
             /\ inflight' = [inflight EXCEPT ![u] = "persistence"]
             /\ pc' = [pc EXCEPT ![u] = AfterSaveError]
             /\ UNCHANGED <<needs_alert, table, prior>>
    /\ UNCHANGED <<pubResult, alerts, raised>>
    /\ UNCHANGED scopeVars

\* The store after a publish that raised: save_matches_and_alert undoes nothing.
AfterPublishErrorRollback(tbl, identity, before) == [tbl EXCEPT ![identity] = before]
AfterPublishError(tbl, identity, before) == tbl

\* analyzer_aws_lib.publish_alert_to_sns(self, sns_topic_arn)
PublishAlert(u) ==
    /\ pc[u] = "publish"
    /\ calls' = [calls EXCEPT ![u].publish = @ + 1]
    /\ LET id == binary[u].s3_identifier
       IN \/ /\ alerts' = [alerts EXCEPT ![id] = @ + 1]
             /\ pubResult' = [pubResult EXCEPT ![u] = "ok"]
             /\ UNCHANGED <<table, inflight>>
          \/ /\ pubResult' = [pubResult EXCEPT ![u] = "error"]
             /\ table' = AfterPublishError(table, id, prior[u])
             /\ inflight' = [inflight EXCEPT ![u] = IF inflight[u] = "none" THEN "notification" ELSE @]
             /\ UNCHANGED alerts
    /\ pc' = [pc EXCEPT ![u] = "exit"]
    /\ UNCHANGED <<needs_alert, saveResult, prior, raised>>
    /\ UNCHANGED scopeVars

\* --------------------------------------------------------------- __exit__
\* A caller that drives the record itself may call __exit__ whenever it has control.
DirectExit(u) ==
    /\ mode = "direct"
    /\ pc[u] \in {"new", "rest"}
    /\ calls[u].exit < MaxExitCalls
    /\ pc' = [pc EXCEPT ![u] = "exit"]
    /\ raised' = [raised EXCEPT ![u] = "none"]
    /\ UNCHANGED <<inflight, calls>>
    /\ UNCHANGED scopeVars
    /\ UNCHANGED alertVars

\* __exit__ returns None: the with statement re-raises the body's exception, if any.
ExitReturns(u) ==
    /\ pc' = [pc EXCEPT ![u] = ScopeEnd]
    /\ exitStatus' = [exitStatus EXCEPT ![u] = "returned"]
    /\ raised' = [raised EXCEPT ![u] = inflight[u]]

\* An exception leaves __exit__: nothing in __exit__ catches it, and it replaces
\* the exception the with statement was unwinding.
ExitRaises(u) ==
    /\ pc' = [pc EXCEPT ![u] = ScopeEnd]
    /\ exitStatus' = [exitStatus EXCEPT ![u] = "raised"]
    /\ raised' = [raised EXCEPT ![u] = "cleanup"]

\* if os.path.isfile(self.download_path):
ExitCheckNoTest(u) ==
    /\ pc[u] = "exit"
    /\ calls' = [calls EXCEPT ![u].exit = @ + 1]
    /\ pc' = [pc EXCEPT ![u] = "truncate"]
    /\ exitStatus' = [exitStatus EXCEPT ![u] = "running"]
    /\ UNCHANGED <<mode, binary, disk, fetched, hint, inflight, raised, readVars>>
    /\ UNCHANGED <<needs_alert, saveResult, prior, pubResult, table, alerts>>

ExitCheck(u) ==
    /\ pc[u] = "exit"
    /\ calls' = [calls EXCEPT ![u].exit = @ + 1]
    /\ IF disk[u].exists
         THEN /\ pc' = [pc EXCEPT ![u] = "truncate"]
              /\ exitStatus' = [exitStatus EXCEPT ![u] = "running"]
              /\ UNCHANGED raised
         ELSE ExitReturns(u)
    /\ UNCHANGED <<mode, binary, disk, fetched, hint, inflight>>
    /\ UNCHANGED alertVars

\* with open(self.download_path, 'wb') as file: file.truncate()
ExitTruncateSkipped(u) ==
    /\ pc[u] = "truncate"
    /\ calls' = [calls EXCEPT ![u].truncate = @ + 1]
    /\ pc' = [pc EXCEPT ![u] = "remove"]
    /\ UNCHANGED <<mode, binary, disk, fetched, hint, inflight, raised, exitStatus, readVars>>
    /\ UNCHANGED <<needs_alert, saveResult, prior, pubResult, table, alerts>>

ExitTruncate(u) ==
    /\ pc[u] = "truncate"
    /\ calls' = [calls EXCEPT ![u].truncate = @ + 1]
    /\ \/ /\ disk' = [disk EXCEPT ![u].data = <<>>]
          /\ pc' = [pc EXCEPT ![u] = "remove"]
          /\ UNCHANGED <<exitStatus, raised>>
       \/ /\ disk' \in {disk, [disk EXCEPT ![u].data = <<>>]}
          /\ ExitRaises(u)
    /\ UNCHANGED <<mode, binary, fetched, hint, inflight>>
    /\ UNCHANGED alertVars

\* What os.remove leaves at the path.
RemovedNothing(f) == f
Removed(f) == NoFile

\* os.remove(self.download_path)
ExitRemove(u) ==
    /\ pc[u] = "remove"
    /\ calls' = [calls EXCEPT ![u].remove = @ + 1]
    /\ \/ /\ disk' = [disk EXCEPT ![u] = Removed(disk[u])]
          /\ ExitReturns(u)
       \/ /\ UNCHANGED disk
          /\ ExitRaises(u)
    /\ UNCHANGED <<mode, binary, fetched, hint, inflight>>
    /\ UNCHANGED alertVars

\* ------------------------------------------------------ read-only methods
\* The caller reads the record inside the with body, after __enter__ returned
\* and before save_matches_and_alert.
CallerHasControl(u) == mode = "with" /\ pc[u] = "body"

\* What a read leaves of the record.
ReadDrainsMatches(self) == [self EXCEPT !.yara_matches = <<>>]
AfterRead(self) == self

\* binary.summary()
Summary(u) ==
    /\ CallerHasControl(u)
    /\ calls[u].summary < MaxReads
    /\ calls' = [calls EXCEPT ![u].summary = @ + 1]
    /\ summaryOut' = [summaryOut EXCEPT ![u] = summary(binary[u])]
    /\ binary' = [binary EXCEPT ![u] = AfterRead(binary[u])]
    /\ UNCHANGED <<mode, disk, pc, fetched, hint, inflight, raised, exitStatus, ruleIdsOut>>
    /\ UNCHANGED <<needs_alert, saveResult, prior, pubResult, table, alerts>>

\* binary.matched_rule_ids
ReadRuleIds(u) ==
    /\ CallerHasControl(u)
    /\ calls[u].rule_ids < MaxReads
    /\ calls' = [calls EXCEPT ![u].rule_ids = @ + 1]
    /\ ruleIdsOut' = [ruleIdsOut EXCEPT ![u] = matched_rule_ids(binary[u])]
    /\ binary' = [binary EXCEPT ![u] = AfterRead(binary[u])]
    /\ UNCHANGED <<mode, disk, pc, fetched, hint, inflight, raised, exitStatus, summaryOut>>
    /\ UNCHANGED <<needs_alert, saveResult, prior, pubResult, table, alerts>>

\* ---------------------------------------------------------- specifications
\* One unit of work: a record driven through its whole lifecycle.
ScopeUnit == 1

Next ==
    \/ Enter(ScopeUnit)
    \/ Download(ScopeUnit)
    \/ Hash(ScopeUnit)
    \/ Scan(ScopeUnit)
    \/ SaveMatches(ScopeUnit)
    \/ PublishAlert(ScopeUnit)
    \/ DirectExit(ScopeUnit)
    \/ ExitCheck(ScopeUnit)
    \/ ExitTruncate(ScopeUnit)
    \/ ExitRemove(ScopeUnit)
    \/ Summary(ScopeUnit)
    \/ ReadRuleIds(ScopeUnit)

Spec == Init /\ [][Next]_vars

\* Concurrent and retried invocations: every unit is inside its with block, its
\* __enter__ having returned, and calls save_matches_and_alert on the shared table.
\* (The keys are interchangeable, so the first unit's key is fixed.)
Entered(u, bucket_name, object_key, obj, matches) ==
    [NewBinaryInfo(u, bucket_name, object_key) EXCEPT
        !.s3_last_modified = obj.last_modified,
        !.s3_metadata = obj.metadata,
        !.download_time_ms = 1,
        !.computed_sha = Sha256(obj.data),
        !.computed_md5 = Md5(obj.data),
        !.yara_matches = matches]

AlertObject == [data |-> <<>>, last_modified |-> "t1", metadata |-> EmptyDict]
\* The match lists of the invocations: every set of rule ids over EngineMatches,
\* with a repeated match and with both orders of two matches.
AlertResults == {<<>>, <<M1>>, <<M1, M1>>, <<M2>>, <<M1, M2>>, <<M2, M1>>}

InitAlert ==
    /\ mode = "with"
    /\ binary \in {[u \in Units |-> Entered(u, <<"b">>, ks[u], AlertObject, ms[u])] :
                      ks \in {f \in [Units -> Keys] : f[1] = <<"k">>},
                      ms \in [Units -> AlertResults]}
    /\ pc = [u \in Units |-> "body"]
    /\ calls = [u \in Units |-> [NoCalls EXCEPT !.enter = 1, !.fetch = 1, !.hash = 1, !.scan = 1]]
    /\ disk = [u \in Units |-> FileOf(AlertObject.data)]
    /\ fetched = [u \in Units |-> "ok"]
    /\ hint = [u \in Units |-> <<"">>]
    /\ inflight = [u \in Units |-> "none"]
    /\ raised = [u \in Units |-> "none"]
    /\ exitStatus = [u \in Units |-> "none"]
    /\ needs_alert = [u \in Units |-> FALSE]
    /\ saveResult = [u \in Units |-> "none"]
    /\ prior = [u \in Units |-> NoRecord]
    /\ pubResult = [u \in Units |-> "none"]
    /\ table = [i \in Identities |-> NoRecord]
    /\ alerts = [i \in Identities |-> 0]
    /\ summaryOut = [u \in Units |-> summary(NewBinaryInfo(u, <<>>, <<>>))]
    /\ ruleIdsOut = [u \in Units |-> {}]

NextAlert ==
    \/ \E u \in Units : SaveMatches(u)
    \/ \E u \in Units : PublishAlert(u)

SpecAlert == InitAlert /\ [][NextAlert]_vars

\* summary() and matched_rule_ids over the match lists an analyzer can return:
\* namespaces are rule file paths (any characters, ":" included), rule names are
\* YARA identifiers (letters, digits, "_"), string identifiers come in any order
\* and with repeats.
PureNamespaces == {<<"f">>, <<"f", ":", "g">>}
PureRules == {<<"r">>, <<"g">>}
PureStrings ==
    {<<>>,
     << <<0, S1, "x">> >>,
     << <<0, S2, "y">>, <<1, S1, "x">> >>,
     << <<0, S1, "x">>, <<5, S1, "x">> >>,
     << <<0, S2, "y">>, <<1, S10, "z">>, <<2, S1, "x">>, <<3, S2, "y">> >>}
PureMatches ==
    {[namespace |-> n, rule |-> r, strings |-> ss, meta |-> EmptyDict, tags |-> <<"t">>] :
        n \in PureNamespaces, r \in PureRules, ss \in PureStrings}
PureResults == SeqsUpTo(PureMatches, MaxMatches)

InitPure ==
    /\ mode = "with"
    /\ \E ms \in PureResults :
          binary = [u \in Units |->
                      Entered(u, <<"b">>, <<"k">>, AlertObject, IF u = ScopeUnit THEN ms ELSE <<>>)]
    /\ pc = [u \in Units |-> "body"]
    /\ calls = [u \in Units |-> [NoCalls EXCEPT !.enter = 1, !.fetch = 1, !.hash = 1, !.scan = 1]]
    /\ disk = [u \in Units |-> FileOf(AlertObject.data)]
    /\ fetched = [u \in Units |-> "ok"]
    /\ hint = [u \in Units |-> <<"">>]
    /\ inflight = [u \in Units |-> "none"]
    /\ raised = [u \in Units |-> "none"]
    /\ exitStatus = [u \in Units |-> "none"]
    /\ needs_alert = [u \in Units |-> FALSE]
    /\ saveResult = [u \in Units |-> "none"]
    /\ prior = [u \in Units |-> NoRecord]
    /\ pubResult = [u \in Units |-> "none"]
    /\ table = [i \in Identities |-> NoRecord]
    /\ alerts = [i \in Identities |-> 0]
    /\ summaryOut = [u \in Units |-> summary(NewBinaryInfo(u, <<>>, <<>>))]
    /\ ruleIdsOut = [u \in Units |-> {}]

NextPure ==
    \/ Summary(ScopeUnit)
    \/ ReadRuleIds(ScopeUnit)

SpecPure == InitPure /\ [][NextPure]_vars

\* ------------------------------------------------------------------ claims
Identity(u) == binary[u].s3_identifier
Rules(u) == matched_rule_ids(binary[u])
\* The call of save_matches_and_alert by u has ended (returned or raised).
CallEnded(u) == calls[u].save = 1 /\ pc[u] # "publish"
\* u's save followed directly on the record for its identity with u's own rule ids.
SameAsLast(u) == prior[u].recorded /\ prior[u].rules = Rules(u)

\* C1: when a with block over a record has ended, whatever the outcome of
\* __enter__ (fetch failed, hashing failed, scan failed, all succeeded),
\* __exit__ has run exactly once and no file is left at download_path.
C1_ExitOncePerEnter ==
    \A u \in Units :
        (mode = "with" /\ pc[u] = "done") => (calls[u].exit = 1 /\ ~disk[u].exists)

\* C2: in the state right after __exit__ has returned, no file exists at the
\* record's download_path, whatever the preceding __enter__ left there.
C2_NoFileAfterExit ==
    \A u \in Units : exitStatus[u] = "returned" => ~disk[u].exists

\* C2 witness: __exit__ returned after removing the partial file of a failed download.
C2_Witness ==
    \E u \in Units :
        /\ exitStatus[u] = "returned"
        /\ fetched[u] \in FetchErrors
        /\ calls[u].remove = 1

\* C3: save_matches_and_alert publishes if and only if save_matches returned
\* needs_alert = true: a publish happens only after a save of the same call that
\* returned true, and a call whose save returned true does not end without a publish.
C3_PublishIffNeedsAlert ==
    \A u \in Units :
        /\ (calls[u].publish > 0 \/ pc[u] = "publish") => (saveResult[u] = "saved" /\ needs_alert[u])
        /\ (saveResult[u] = "saved" /\ needs_alert[u]) => (pc[u] = "publish" \/ calls[u].publish = 1)

\* C3 witness: one call published after needs_alert = true, another ended without
\* publishing after needs_alert = false.
C3_Witness ==
    \E u, v \in Units :
        /\ pubResult[u] = "ok" /\ needs_alert[u]
        /\ CallEnded(v) /\ saveResult[v] = "saved" /\ ~needs_alert[v] /\ calls[v].publish = 0

\* C4: when save_matches fails, the failure leaves save_matches_and_alert and
\* nothing is published in that call; every published alert has a record for its
\* identity in the table, written by the save of the same call before the publish.
C4_NoAlertWithoutRecord ==
    \A u \in Units :
        /\ saveResult[u] = "error" =>
              (pc[u] # "publish" /\ calls[u].publish = 0 /\ inflight[u] = "persistence")
        /\ calls[u].publish > 0 => (saveResult[u] = "saved" /\ table[Identity(u)].recorded)

\* C4 witness: a call whose save failed has ended, and another call has published.
C4_Witness ==
    \E u, v \in Units :
        /\ saveResult[u] = "error" /\ CallEnded(u)
        /\ pubResult[v] = "ok"

\* C5: among the invocations for one identity, all carrying the same matched rule
\* ids, at most one publishes, under every interleaving of saves and publishes.
C5_AtMostOnePublish ==
    \A i \in Identities :
        LET same == {u \in Units : Identity(u) = i}
        IN (\A u, v \in same : Rules(u) = Rules(v)) =>
              Cardinality({u \in same : calls[u].publish > 0 \/ pc[u] = "publish"}) <= 1

\* C5 witness: two invocations for the same identity with the same rule ids have
\* both ended, one of them having published.
C5_Witness ==
    \E u, v \in Units :
        /\ u # v /\ Identity(u) = Identity(v) /\ Rules(u) = Rules(v)
        /\ \A w \in Units : Identity(w) = Identity(u) => Rules(w) = Rules(u)
        /\ CallEnded(u) /\ CallEnded(v)
        /\ pubResult[u] = "ok" /\ saveResult[v] = "saved"

\* C6: of two consecutive calls for the same identity with the same matched rule
\* ids, the second one's save returns needs_alert = false and it publishes nothing.
C6_SecondCallSilent ==
    \A u \in Units :
        (saveResult[u] = "saved" /\ SameAsLast(u)) =>
            (~needs_alert[u] /\ pc[u] # "publish" /\ calls[u].publish = 0)

\* C6 witness: a second call for an identity, with the rule ids of the first, has ended.
C6_Witness ==
    \E u \in Units :
        /\ saveResult[u] = "saved" /\ SameAsLast(u) /\ CallEnded(u)
        /\ prior[u].writer # u /\ Rules(u) # {}

\* C7: a call for an identity with no record, or whose matched rule ids differ
\* from the recorded ones, gets needs_alert = true and invokes the notification
\* channel exactly once (one alert is delivered unless that publish fails); this
\* includes a first save with no matches.
C7_NewStateAlertsOnce ==
    \A u \in Units :
        (saveResult[u] = "saved" /\ ~SameAsLast(u)) =>
            /\ needs_alert[u]
            /\ calls[u].publish <= 1
            /\ CallEnded(u) => (calls[u].publish = 1 /\ pubResult[u] \in {"ok", "error"})
            /\ pubResult[u] = "ok" => alerts[Identity(u)] >= 1

\* C7 witness: the first save of a record without matches has alerted, and a call
\* whose rule ids differ from the recorded ones has alerted too.
C7_Witness ==
    \E u, v \in Units :
        /\ ~prior[u].recorded /\ binary[u].yara_matches = <<>> /\ pubResult[u] = "ok"
        /\ prior[v].recorded /\ prior[v].rules # Rules(v) /\ pubResult[v] = "ok"
        /\ alerts[Identity(v)] = 2

\* C8: a publish that fails after a save with needs_alert = true leaves the table
\* as the save wrote it, and a later call for the same identity with the same
\* matched rule ids gets needs_alert = false and publishes nothing.
C8_NoRollback ==
    [][\A u \in Units :
          /\ (pc[u] = "publish" /\ pubResult'[u] = "error") =>
                (table' = table /\ table'[Identity(u)].recorded)
          /\ (/\ saveResult[u] = "none" /\ saveResult'[u] = "saved"
              /\ \E v \in Units : /\ pubResult[v] = "error"
                                  /\ table[Identity(u)].writer = v
                                  /\ Rules(v) = Rules(u)) =>
                (~needs_alert'[u] /\ pc'[u] # "publish")
      ]_vars

\* C8 witness: after a failed publish, a later call for the same identity and
\* rule ids has saved and ended without an alert being delivered.
C8_Witness ==
    \E u, v \in Units :
        /\ pubResult[u] = "error" /\ needs_alert[u]
        /\ saveResult[v] = "saved" /\ prior[v].writer = u /\ Rules(v) = Rules(u)
        /\ CallEnded(v) /\ calls[v].publish = 0
        /\ alerts[Identity(u)] = 0

\* C9: when the fetch of a with block fails with not-found, both digests stay
\* unset, the analyzer is never invoked, the caller gets the not-found error, and
\* __exit__ has run and left no file at download_path.
C9_NotFoundReleases ==
    \A u \in Units :
        (mode = "with" /\ pc[u] = "done" /\ fetched[u] = "notfound") =>
            /\ binary[u].computed_sha = None /\ binary[u].computed_md5 = None
            /\ calls[u].scan = 0
            /\ raised[u] = "notfound"
            /\ calls[u].exit = 1
            /\ ~disk[u].exists

\* C10: a failure of truncate or remove inside __exit__ never reaches the caller:
\* when the with block has ended, the caller has the exception of the body, or
\* none when the body raised none.
C10_CleanupErrorNotRaised ==
    \A u \in Units :
        (mode = "with" /\ pc[u] = "done" /\ calls[u].exit = 1) =>
            (raised[u] # "cleanup" /\ raised[u] = inflight[u])

\* The distinct (namespace, rule name) pairs of a match list.
Pairs(matches) == {<<matches[i].namespace, matches[i].rule>> : i \in DOMAIN matches}
StrictlyAscending(list) == \A j, k \in DOMAIN list : j < k => LexLess(list[j], list[k])
Rule1 == <<"R", "u", "l", "e", "1">>
Rule2 == <<"R", "u", "l", "e", "2">>

\* C11: matched_rule_ids holds exactly one entry per distinct (namespace, rule
\* name) pair of the match list: as many entries as distinct pairs, each pair's
\* "namespace:rule" among them and nothing else.
C11_OneIdPerPair ==
    \A u \in Units :
        calls[u].rule_ids > 0 =>
            LET pairs == Pairs(binary[u].yara_matches)
            IN /\ Cardinality(ruleIdsOut[u]) = Cardinality(pairs)
               /\ ruleIdsOut[u] = {p[1] \o <<":">> \o p[2] : p \in pairs}

\* C11 witness: matched_rule_ids was read from a list that holds one pair twice,
\* its namespace containing ":", and has the single entry "f:g:r".
C11_Witness ==
    \E u \in Units :
        /\ calls[u].rule_ids > 0
        /\ Len(binary[u].yara_matches) = 2
        /\ Cardinality(Pairs(binary[u].yara_matches)) = 1
        /\ ruleIdsOut[u] = {<<"f", ":", "g", ":", "r">>}

\* C12: for every match in summary(), MatchedStrings is strictly ascending (sorted,
\* no duplicates) and holds exactly the string identifiers the engine reported
\* for that match.
C12_MatchedStringsSorted ==
    \A u \in Units :
        calls[u].summary > 0 =>
            \A i \in DOMAIN binary[u].yara_matches :
                LET reported == binary[u].yara_matches[i].strings
                    listed == summaryOut[u].MatchedRules[RuleKey(i)].MatchedStrings
                IN /\ StrictlyAscending(listed)
                   /\ {listed[j] : j \in DOMAIN listed} = {reported[j][2] : j \in DOMAIN reported}

\* C12 witness: summary() of a match reported as "$s2", "$s10", "$s1", "$s2" lists
\* "$s1", "$s10", "$s2".
C12_Witness ==
    \E u \in Units :
        /\ calls[u].summary > 0
        /\ Len(binary[u].yara_matches) >= 1
        /\ Len(binary[u].yara_matches[1].strings) = 4
        /\ summaryOut[u].MatchedRules[Rule1].MatchedStrings = <<S1, S10, S2>>

\* C13: for a match list of length n, summary() has NumMatchedRules = n and
\* MatchedRules has exactly the keys Rule1..Rulen, Rule i describing the i-th
\* match in the engine's order; two matches of one rule give two entries.
C13_RulePerMatch ==
    \A u \in Units :
        calls[u].summary > 0 =>
            LET matches == binary[u].yara_matches
                out == summaryOut[u]
            IN /\ out.NumMatchedRules = Len(matches)
               /\ DOMAIN out.MatchedRules = {RuleKey(i) : i \in 1..Len(matches)}
               /\ Cardinality(DOMAIN out.MatchedRules) = Len(matches)
               /\ Len(matches) >= 1 => Rule1 \in DOMAIN out.MatchedRules
               /\ Len(matches) >= 2 => Rule2 \in DOMAIN out.MatchedRules
               /\ \A i \in DOMAIN matches :
                     /\ out.MatchedRules[RuleKey(i)].RuleFile = matches[i].namespace
                     /\ out.MatchedRules[RuleKey(i)].RuleName = matches[i].rule
                     /\ out.MatchedRules[RuleKey(i)].Meta = matches[i].meta
                     /\ out.MatchedRules[RuleKey(i)].RuleTags = matches[i].tags
                     /\ out.MatchedRules[RuleKey(i)].MatchedStrings = MatchedStrings(matches[i].strings)

\* C13 witness: summary() of two matches of the same rule with different strings
\* has NumMatchedRules = 2 and two entries, in the engine's order.
C13_Witness ==
    \E u \in Units :
        /\ calls[u].summary > 0
        /\ Len(binary[u].yara_matches) = 2
        /\ Cardinality(Pairs(binary[u].yara_matches)) = 1
        /\ summaryOut[u].NumMatchedRules = 2
        /\ summaryOut[u].MatchedRules[Rule1].MatchedStrings = <<S1, S2>>
        /\ summaryOut[u].MatchedRules[Rule2].MatchedStrings = <<S1>>

DigestsUnset(u) == binary[u].computed_sha = None /\ binary[u].computed_md5 = None
DigestsSet(u) == binary[u].computed_sha # None /\ binary[u].computed_md5 # None

\* C14: within one __enter__ the steps run in the order fetch, hash, scan: the
\* digests are set only after a successful fetch, the analyzer is invoked only
\* after fetch and hashing succeeded, and each of the three is invoked at most once.
C14_FetchHashScanOnce ==
    \A u \in Units :
        /\ calls[u].fetch <= 1 /\ calls[u].hash <= 1 /\ calls[u].scan <= 1
        /\ calls[u].scan <= calls[u].hash /\ calls[u].hash <= calls[u].fetch
        /\ calls[u].hash > 0 => fetched[u] = "ok"
        /\ calls[u].scan > 0 => (fetched[u] = "ok" /\ DigestsSet(u))
        /\ ~DigestsUnset(u) => (fetched[u] = "ok" /\ calls[u].hash = 1)
        /\ binary[u].yara_matches # <<>> => calls[u].scan = 1

\* C14 witness: fetch, hash and scan have each run once and matches are stored.
C14_Witness ==
    \E u \in Units :
        /\ calls[u].fetch = 1 /\ calls[u].hash = 1 /\ calls[u].scan = 1
        /\ binary[u].yara_matches # <<>>
        /\ pc[u] = "body"

\* C15: a failing sub-step of __enter__ leaves exactly the fields the completed
\* sub-steps set: after a hashing failure the acquisition metadata is set, the
\* digests are unset and the match list is empty, and the analyzer has not run;
\* after a scan failure the metadata and both digests are set and the match list
\* is empty; after a fetch failure no field is set.
C15_FieldsAfterFailure ==
    \A u \in Units :
        /\ raised[u] = "hash_io" =>
              /\ binary[u].s3_last_modified \in LastModifieds
              /\ binary[u].s3_metadata \in Metadatas
              /\ DigestsUnset(u)
              /\ binary[u].yara_matches = <<>>
              /\ calls[u].scan = 0
        /\ raised[u] = "scan" =>
              /\ binary[u].s3_last_modified \in LastModifieds
              /\ binary[u].s3_metadata \in Metadatas
              /\ DigestsSet(u)
              /\ binary[u].yara_matches = <<>>
        /\ raised[u] \in FetchErrors =>
              /\ binary[u] = NewBinaryInfo(u, binary[u].bucket_name, binary[u].object_key)
              /\ calls[u].hash = 0 /\ calls[u].scan = 0

\* C15 witness: hashing failed on a downloaded object that carries a filepath entry.
C15_Witness ==
    \E u \in Units :
        /\ raised[u] = "hash_io"
        /\ "filepath" \in DOMAIN binary[u].s3_metadata
        /\ disk[u].exists

\* C16: __exit__ invoked when no file exists at download_path (no prior __enter__,
\* an __enter__ that failed before creating the file, or an earlier __exit__)
\* returns without error and changes neither the disk nor any field of the record.
C16_ExitWithoutFile ==
    [][\A u \in Units :
          (pc[u] = "exit" /\ ~disk[u].exists /\ pc'[u] # "exit") =>
              /\ exitStatus'[u] = "returned"
              /\ raised'[u] = inflight[u]
              /\ pc'[u] = ScopeEnd
              /\ disk' = disk
              /\ binary' = binary
      ]_vars

\* C16 witness: a second __exit__ has returned after the first one removed the file.
C16_Witness ==
    \E u \in Units :
        /\ calls[u].exit = 2 /\ calls[u].remove = 1 /\ calls[u].truncate = 1
        /\ exitStatus[u] = "returned"
        /\ ~disk[u].exists

\* C17: whenever __exit__ calls os.remove, the file exists and has been truncated
\* to length zero by this __exit__: the removal is never issued on a file that
\* still holds downloaded bytes.
C17_TruncateBeforeRemove ==
    [][\A u \in Units :
          calls'[u].remove # calls[u].remove =>
              /\ disk[u].exists /\ disk[u].data = <<>>
              /\ calls[u].truncate > calls[u].remove
      ]_vars

\* C17 witness: __exit__ has removed the file of a downloaded object of one byte or more.
C17_Witness ==
    \E u \in Units :
        /\ calls[u].remove = 1 /\ ~disk[u].exists
        /\ fetched[u] = "ok"
        /\ DigestsSet(u) /\ binary[u].computed_sha # Sha256(<<>>)

\* C18: no operation changes bucket_name, object_key, s3_identifier or
\* download_path, and summary() and matched_rule_ids change no field of the record.
C18_IdentityAndReadsFrame ==
    [][\A u \in Units :
          /\ binary'[u].bucket_name = binary[u].bucket_name
          /\ binary'[u].object_key = binary[u].object_key
          /\ binary'[u].s3_identifier = binary[u].s3_identifier
          /\ binary'[u].download_path = binary[u].download_path
          /\ (calls'[u].summary # calls[u].summary \/ calls'[u].rule_ids # calls[u].rule_ids) =>
                binary'[u] = binary[u]
      ]_vars

\* C18 witness: a record with matches has been read by summary() and
\* matched_rule_ids, saved, and released by __exit__.
C18_Witness ==
    \E u \in Units :
        /\ calls[u].summary = 1 /\ calls[u].rule_ids = 1
        /\ binary[u].yara_matches # <<>>
        /\ summaryOut[u].NumMatchedRules = Len(binary[u].yara_matches)
        /\ calls[u].save = 1 /\ exitStatus[u] = "returned"

\* C19: the path hint given to the analyzer is the "filepath" entry of the
\* metadata that this __enter__'s download returned, the empty string when there
\* is no such entry, and never a value read before the download.
C19_HintFromFetchedMetadata ==
    \A u \in Units :
        /\ calls[u].scan = 0 => hint[u] = None
        /\ calls[u].scan > 0 =>
              /\ fetched[u] = "ok"
              /\ hint[u] = IF "filepath" \in DOMAIN binary[u].s3_metadata
                             THEN <<binary[u].s3_metadata["filepath"]>>
                             ELSE <<"">>

\* C19 witness: the analyzer was given the filepath entry of the downloaded metadata.
C19_Witness ==
    \E u \in Units :
        /\ calls[u].scan = 1
        /\ hint[u] = <<"/usr/bin/x">>
====
